---- MODULE Spec2Model ----
(***************************************************************************)
(* Model of the wsl-api execution bridge (crates/wsl-api/src/lib.rs):      *)
(* Wsl2::new, the background COM thread (com_thread_worker), the two       *)
(* execution modes execute_thread / execute, and the drop of a Wsl2;       *)
(* Wsl2::launch and the WslProcess it returns (SpecLaunch).                *)
(***************************************************************************)
EXTENDS Integers, Sequences, FiniteSets, TLC

\* ---------------------------------------------------------------- bounds
NumCallers == 2
MaxCalls == 3

Callers == 1..NumCallers
CallIds == 1..MaxCalls

\* Thread identifier of the background COM thread; caller threads are 1..NumCallers.
BridgeThread == 0

\* ------------------------------------------------ public operations of Wsl2
\* Operations whose closure is handed to execute (lib.rs 343, 400, 469, 494, 527, 559).
DirectOps ==
  {"get_default_distribution", "launch", "enumerate_distributions",
   "export_distribution", "register_distribution", "set_version"}

\* Operations handed to execute_thread: shutdown (lib.rs 335) and, since
\* execute_thread is generic over F, any other closure a method submits.
ThreadOps == {"shutdown", "closure"}

Outcomes == {"Ok", "Err"}

NoItem == [id |-> 0, caller |-> 0, op |-> "none"]
NoResult == [id |-> 0, st |-> "none"]

VARIABLES
  newPc,        \* position of the thread inside Wsl2::new
  newResult,    \* what Wsl2::new returned: "none", "Ok", an error code, "panic"
  bridgePc,     \* position of the background thread inside com_thread_worker
  initChan,     \* messages in flight on the (tx_init, rx_init) channel
  initTxAlive,  \* the `initialized` sender has not been dropped
  initSent,     \* number of sends performed on `initialized`
  initError,    \* error produced by the failing initialization step, or "none"
  senderAlive,  \* Wsl2.sender (the work queue's only sender) has not been dropped
  receiverAlive,\* the work queue's receiver has not been dropped
  wslState,     \* "none", "shared" (usable through &self), "moved" (inside shutdown), "dropped"
  queue,        \* work items enqueued and not yet received
  cur,          \* work item the background thread is running, or NoItem
  log,          \* work items the background thread has run, in order, each with
                \* the outcome its closure produced
  enqOrder,     \* ids of the work items in the order they were enqueued
  resp,         \* per call: messages in flight on the call's (tx, rx) channel
  sentCount,    \* per call: number of sends performed on the call's tx
  callerPc,     \* per caller thread: "idle", "waiting", "direct", "panicked"
  callerItem,   \* per caller thread: the call in progress, or NoItem
  callerResult, \* per caller thread: the value its last call returned
  inService,    \* threads that are inside a call on the ILxssUserSession
  nextId,       \* next call id
  comInit,      \* CoInitializeEx calls that succeeded on the background thread
  uninitCount   \* CoUninitialize calls made on the background thread

\* --------------------------------------- Wsl2::launch and WslProcess state
VARIABLE launch \* the state of a call of Wsl2::launch and of the WslProcess it returns

launchPc == launch.launchPc           \* position inside Wsl2::launch, "idle" outside of it
response == launch.response           \* what CreateLxProcess returned: its status code and
                                      \* the handle fields of the result that are valid
launchResult == launch.launchResult   \* what launch returned: "none", "Ok" or the error code
owners == launch.owners               \* per OS handle: the live objects whose drop closes it
closeCount == launch.closeCount       \* per OS handle: number of times it was closed
procState == launch.procState         \* the WslProcess: "none", "built", "live", "waiting"
                                      \* (inside wait), "dropped"
handle == launch.handle               \* WslProcess.handle: "none", "WSL1", "WSL2"
streamAt == launch.streamAt           \* per stream: "none", "process" (the Option is Some),
                                      \* "caller" (taken), "dropped"
readerState == launch.readerState     \* the Interop thread: "none", "running", "ended"
readerSpawned == launch.readerSpawned \* number of Interop threads spawned
rawStatus == launch.rawStatus         \* the 32 bits the wait ioctl wrote to Output.ExitStatus
waitResult == launch.waitResult       \* what wait returned
stdHandles == launch.stdHandles       \* the LXSS_STD_HANDLES given to CreateLxProcess
streamHandle == launch.streamHandle   \* per stream of the WslProcess: the handle it wraps

\* ------------------------------------------------- Interop (frame reader) state
VARIABLE interop \* the state of an Interop, its socket and its reader thread

frames == interop.frames         \* the frames the peer writes to the socket
wire == interop.wire             \* the bytes that arrive on the socket before it ends
endKind == interop.endKind       \* what a read past the last byte does: "eof", "error",
                                 \* "open" (blocks)
sockPos == interop.sockPos       \* number of bytes read from the socket so far
bufLen == interop.bufLen         \* number of bytes in the BufReader's buffer, read and
                                 \* not yet consumed
readerPc == interop.readerPc     \* the reader thread: "none", "header", "exit_payload",
                                 \* "skip", "done" (returned), "panicked"
skipLeft == interop.skipLeft     \* bytes of an unknown frame's payload read_exact has
                                 \* still to read
headerAt == interop.headerAt     \* the stream offsets at which a header was decoded
spins == interop.spins           \* rounds of the loop of read_direct that left the
                                 \* buffer as it was: 0 for none, then 1 and 2 in turn
recvResult == interop.recvResult \* what wait returned on the interop path
termChan == interop.termChan     \* Interop.term: the exit codes sent and not yet received
sent == interop.sent             \* number of sends the reader thread made on tx
readFailed == interop.readFailed \* a read of the reader thread returned an error

\* ------------------------------------ handle validation (export, register, set_version)
VARIABLE validate \* the state of a call of an operation that takes handles

valPc == validate.valPc               \* position inside the operation: "idle",
                                      \* "validate_stderr", "validate_file", "call",
                                      \* "drop", "done"
valOp == validate.valOp               \* the operation called
argType == validate.argType           \* per handle argument: what GetFileType reports for
                                      \* it, "none" if the operation does not take it
checked == validate.checked           \* the calls of validate_file_handle made
serviceCalls == validate.serviceCalls \* number of calls made to the service
argClosed == validate.argClosed       \* per handle argument: number of times it was closed
valResult == validate.valResult       \* what the operation returned

\* ------------------------------------------------ the WslError of Wsl2::new
VARIABLE wslError \* the host the crate was built for, and the error Wsl2::new returned

host == wslError.host             \* "windows" or "other": the cfg the crate was built with
errPc == wslError.errPc           \* "idle", or "returned" once new has returned Err
failedStep == wslError.failedStep \* the step of com_thread_worker that failed
underlying == wslError.underlying \* the variant and code of WslError.underlying
hresultSeen == wslError.hresultSeen \* what hresult() returned, "none" before its call
kindSeen == wslError.kindSeen     \* what kind() returned, "none" before its call

\* The state of the Wsl2 bridge.
bridgeAll ==
  << newPc, newResult, bridgePc, initChan, initTxAlive, initSent, initError,
     senderAlive, receiverAlive, wslState, queue, cur, log, enqOrder, resp,
     sentCount, callerPc, callerItem, callerResult, inService,
     nextId, comInit, uninitCount >>

\* Everything that is not state of the Wsl2 bridge.
outsideBridge == << launch, interop, validate, wslError >>

vars == << launch, interop, validate, wslError, bridgeAll >>

bridgeVars == << queue, cur, log, resp, sentCount, inService, receiverAlive >>
callVars == << callerPc, callerItem, callerResult, enqOrder, nextId >>
newVars == << newPc, newResult, wslState, senderAlive >>
initVars == << initChan, initTxAlive, initSent, initError >>
comVars == << comInit, uninitCount >>

\* Everything that is not state of a launch or of the WslProcess it returns.
outsideLaunch == << interop, validate, wslError, bridgeAll >>

\* Everything that is not state of an Interop.
outsideFrame == << launch, validate, wslError, bridgeAll >>

\* Everything that is not state of a handle-taking operation.
outsideValidate == << launch, interop, wslError, bridgeAll >>

\* Everything that is not state of a WslError.
outsideError == << launch, interop, validate, bridgeAll >>

\* The six ends of the three pipes launch allocates (lib.rs 375-377).
PipeEnds == {"stdin_r", "stdin_w", "stdout_r", "stdout_w", "stderr_r", "stderr_w"}

\* The handle fields of CreateLxProcessResult (wsl-com-api-sys lib.rs 605-616).
ResultHandles ==
  {"ProcessHandle", "ServerHandle", "StandardIn", "StandardOut", "StandardErr",
   "CommunicationChannel", "InteropSocket"}

Handles == PipeEnds \cup ResultHandles

\* The pub stream fields of WslProcess.
Streams == {"stdin", "stdout", "stderr"}

\* CreateLxProcess was not called yet.
NoResponse == [kind |-> "none", code |-> "none", valid |-> {}]

\* The wait ioctl wrote no status.
NoStatus == [hi |-> -1, lo |-> -1]

\* wait did not return yet.
NoExit == [kind |-> "none", code |-> 0]

\* No LXSS_STD_HANDLES was built yet.
NoStdHandles == [StdIn |-> "none", StdOut |-> "none", StdErr |-> "none"]

\* No launch is in progress and no WslProcess exists.
LaunchIdle ==
  launch =
    [launchPc |-> "idle", response |-> NoResponse, launchResult |-> "none",
     owners |-> [h \in Handles |-> {}], closeCount |-> [h \in Handles |-> 0],
     procState |-> "none", handle |-> "none",
     streamAt |-> [s \in Streams |-> "none"],
     readerState |-> "none", readerSpawned |-> 0,
     rawStatus |-> NoStatus, waitResult |-> NoExit,
     stdHandles |-> NoStdHandles,
     streamHandle |-> [s \in Streams |-> "none"]]

\* An UnderlyingError that does not exist.
NoError == [variant |-> "none", code |-> "none"]

\* Wsl2::new returned no error, on a Windows host.
ErrorIdle ==
  wslError =
    [host |-> "windows", errPc |-> "idle", failedStep |-> "none",
     underlying |-> NoError,
     hresultSeen |-> "none", kindSeen |-> "none"]

\* No Interop exists.
FrameIdle ==
  interop =
    [frames |-> << >>, wire |-> << >>, endKind |-> "none", sockPos |-> 0,
     bufLen |-> 0, readerPc |-> "none", skipLeft |-> 0, headerAt |-> << >>,
     spins |-> 0, recvResult |-> NoExit, termChan |-> << >>, sent |-> 0,
     readFailed |-> FALSE]

\* The arguments of export_distribution, register_distribution and set_version
\* that carry a handle.
Args == {"file", "stderr"}

\* The operation did not return yet.
NoValResult == [kind |-> "none", code |-> "none", message |-> << >>]

\* No handle-taking operation was called.
ValidateIdle ==
  validate =
    [valPc |-> "idle", valOp |-> "none", argType |-> [a \in Args |-> "none"],
     checked |-> {}, serviceCalls |-> 0, argClosed |-> [a \in Args |-> 0],
     valResult |-> NoValResult]

\* State on entry to Wsl2::new, after the two channels were created (lib.rs 153-154).
BridgeStart ==
  /\ newPc = "start"
  /\ newResult = "none"
  /\ bridgePc = "unspawned"
  /\ initChan = << >>
  /\ initTxAlive = TRUE
  /\ initSent = 0
  /\ initError = "none"
  /\ senderAlive = TRUE
  /\ receiverAlive = TRUE
  /\ wslState = "none"
  /\ queue = << >>
  /\ cur = NoItem
  /\ log = << >>
  /\ enqOrder = << >>
  /\ resp = [i \in CallIds |-> << >>]
  /\ sentCount = [i \in CallIds |-> 0]
  /\ callerPc = [c \in Callers |-> "idle"]
  /\ callerItem = [c \in Callers |-> NoItem]
  /\ callerResult = [c \in Callers |-> NoResult]
  /\ inService = {}
  /\ nextId = 1
  /\ comInit = 0
  /\ uninitCount = 0

Init == BridgeStart /\ LaunchIdle /\ FrameIdle /\ ValidateIdle /\ ErrorIdle

\* ------------------------------------------------------------- Wsl2::new
\* thread::spawn(move || Self::com_thread_worker(receiver, tx_init))
new_spawn ==
  /\ newPc = "start"
  /\ newPc' = "recv"
  /\ bridgePc' = "WSAStartup"
  /\ UNCHANGED << newResult, wslState, senderAlive, initVars, bridgeVars, callVars, comVars >>
  /\ UNCHANGED outsideBridge

\* A mutation of OnInitDisconnect: the disconnect is reported as an error value.
OnInitDisconnectAsError == "err"

\* .expect("thread died (init)?") on a disconnected rx_init: the thread in new panics.
OnInitDisconnect == "panicked"

\* rx_init.recv().expect("thread died (init)?").map_err(WslError::from)?
new_recv ==
  /\ newPc = "recv"
  /\ IF initChan # << >>
       THEN /\ initChan' = Tail(initChan)
            /\ IF Head(initChan) = "Ok"
                 THEN /\ newPc' = "ok"
                      /\ newResult' = "Ok"
                      /\ wslState' = "shared"
                      /\ senderAlive' = senderAlive
                 ELSE /\ newPc' = "err"
                      /\ newResult' = Head(initChan)
                      /\ wslState' = wslState
                      /\ senderAlive' = FALSE
       ELSE /\ ~initTxAlive
            /\ newPc' = OnInitDisconnect
            /\ newResult' = "panic"
            /\ senderAlive' = FALSE
            /\ UNCHANGED << initChan, wslState >>
  /\ UNCHANGED << bridgePc, initTxAlive, initSent, initError, bridgeVars, callVars, comVars >>
  /\ UNCHANGED outsideBridge

\* ---------------------------------------------------- com_thread_worker
\* A mutation of InitFail: the `return` after the send is missing, so the
\* thread goes on into its receive loop.
InitFailNoReturn(e, uninit) ==
  /\ initChan' = Append(initChan, e)
  /\ initSent' = initSent + 1
  /\ initError' = e
  /\ UNCHANGED << initTxAlive, receiverAlive >>
  /\ uninitCount' = IF uninit THEN uninitCount + 1 ELSE uninitCount
  /\ bridgePc' = "loop"

\* A mutation of InitFail: the `return` after the send is missing, so the
\* thread goes on with its startup as if the step had succeeded.
InitFailFallsThrough(e, uninit) ==
  /\ initChan' = Append(initChan, e)
  /\ initSent' = initSent + 1
  /\ initError' = e
  /\ UNCHANGED << initTxAlive, receiverAlive >>
  /\ uninitCount' = IF uninit THEN uninitCount + 1 ELSE uninitCount
  /\ bridgePc' = "send_ready"

\* A mutation of InitFail: CoUninitialize is called on every failure branch.
InitFailAlwaysUninit(e, uninit) ==
  /\ initChan' = Append(initChan, e)
  /\ initSent' = initSent + 1
  /\ initError' = e
  /\ initTxAlive' = FALSE
  /\ receiverAlive' = FALSE
  /\ uninitCount' = uninitCount + 1
  /\ bridgePc' = "done"

\* initialized.send(Err(e)).expect(..); return;  (after CoUninitialize when asked)
InitFail(e, uninit) ==
  /\ initChan' = Append(initChan, e)
  /\ initSent' = initSent + 1
  /\ initError' = e
  /\ initTxAlive' = FALSE
  /\ receiverAlive' = FALSE
  /\ uninitCount' = IF uninit THEN uninitCount + 1 ELSE uninitCount
  /\ bridgePc' = "done"

InitStepOk(next) ==
  /\ bridgePc' = next
  /\ UNCHANGED << initVars, receiverAlive, uninitCount >>

worker_WSAStartup ==
  /\ bridgePc = "WSAStartup"
  /\ \E ok \in BOOLEAN :
       IF ok THEN InitStepOk("CoInitializeEx") ELSE InitFail("E_WSAStartup", FALSE)
  /\ UNCHANGED << newVars, queue, cur, log, resp, sentCount, inService,
                  callVars, comInit >>
  /\ UNCHANGED outsideBridge

worker_CoInitializeEx ==
  /\ bridgePc = "CoInitializeEx"
  /\ \E ok \in BOOLEAN :
       IF ok THEN /\ InitStepOk("CoInitializeSecurity")
                  /\ comInit' = comInit + 1
             ELSE /\ InitFail("E_CoInitializeEx", FALSE)
                  /\ comInit' = comInit
  /\ UNCHANGED << newVars, queue, cur, log, resp, sentCount, inService, callVars >>
  /\ UNCHANGED outsideBridge

worker_CoInitializeSecurity ==
  /\ bridgePc = "CoInitializeSecurity"
  /\ \E ok \in BOOLEAN :
       IF ok THEN InitStepOk("get_lxss_user_session")
             ELSE InitFail("E_CoInitializeSecurity", TRUE)
  /\ UNCHANGED << newVars, queue, cur, log, resp, sentCount, inService,
                  callVars, comInit >>
  /\ UNCHANGED outsideBridge

worker_get_lxss_user_session ==
  /\ bridgePc = "get_lxss_user_session"
  /\ \E ok \in BOOLEAN :
       IF ok THEN InitStepOk("set_session_blanket")
             ELSE InitFail("E_get_lxss_user_session", TRUE)
  /\ UNCHANGED << newVars, queue, cur, log, resp, sentCount, inService,
                  callVars, comInit >>
  /\ UNCHANGED outsideBridge

worker_set_session_blanket ==
  /\ bridgePc = "set_session_blanket"
  /\ \E ok \in BOOLEAN :
       IF ok THEN InitStepOk("send_ready")
             ELSE InitFail("E_set_session_blanket", TRUE)
  /\ UNCHANGED << newVars, queue, cur, log, resp, sentCount, inService,
                  callVars, comInit >>
  /\ UNCHANGED outsideBridge

\* initialized.send(Ok(CoMultithreadedInterface(session.clone())))
worker_send_ready ==
  /\ bridgePc = "send_ready"
  /\ initChan' = Append(initChan, "Ok")
  /\ initSent' = initSent + 1
  /\ bridgePc' = "loop"
  /\ UNCHANGED << initTxAlive, initError, newVars, bridgeVars, callVars, comVars >>
  /\ UNCHANGED outsideBridge

InitSteps ==
  {"WSAStartup", "CoInitializeEx", "CoInitializeSecurity",
   "get_lxss_user_session", "set_session_blanket", "send_ready"}

\* The background thread unwinds during initialization, before any send on
\* `initialized`: its locals (initialized, receiver) are dropped.
worker_die_init ==
  /\ bridgePc \in InitSteps
  /\ bridgePc' = "dead"
  /\ initTxAlive' = FALSE
  /\ receiverAlive' = FALSE
  /\ UNCHANGED << initChan, initSent, initError, newVars, queue, cur, log, resp,
                  sentCount, inService, callVars, comVars >>
  /\ UNCHANGED outsideBridge

\* A mutation of QueueTake: the newest queued item is received first.
QueueTakeLast(q) == [item |-> q[Len(q)], rest |-> SubSeq(q, 1, Len(q) - 1)]

\* A mutation of QueueTake: the received item is left in the queue.
QueueTakeNoRemove(q) == [item |-> Head(q), rest |-> q]

\* `for request in receiver`: Receiver::recv returns the oldest queued item.
QueueTake(q) == [item |-> Head(q), rest |-> Tail(q)]

worker_recv ==
  /\ bridgePc = "loop"
  /\ queue # << >>
  /\ cur' = QueueTake(queue).item
  /\ queue' = QueueTake(queue).rest
  /\ inService' = inService \cup {BridgeThread}
  /\ bridgePc' = "request"
  /\ UNCHANGED << log, resp, sentCount, receiverAlive, initVars, newVars,
                  callVars, comVars >>
  /\ UNCHANGED outsideBridge

\* A mutation of ResponseSlot: one response channel shared by all calls, so a
\* result goes to the oldest call still to be received.
ResponseSlotShared(it) ==
  IF queue # << >> THEN Head(queue).id ELSE it.id

\* Channel on which the closure of work item `it` sends its result: the tx it captured.
ResponseSlot(it) == it.id

\* A mutation of AfterRequest: an Err outcome is unwrapped on the background
\* thread, which ends it.
AfterRequestUnwrap(st) == IF st = "Err" THEN "dead" ELSE "loop"

\* Position of the background thread after request(&session) returned: the
\* outcome st was sent to the caller, the loop goes on.
AfterRequest(st) == "loop"

\* request(&session):  let result = f(session); _ = tx.send(result);
worker_request ==
  /\ bridgePc = "request"
  /\ \E st \in Outcomes :
       /\ log' = Append(log, [id |-> cur.id, st |-> st])
       /\ resp' = [resp EXCEPT ![ResponseSlot(cur)] = Append(@, [id |-> cur.id, st |-> st])]
       /\ sentCount' = [sentCount EXCEPT ![ResponseSlot(cur)] = @ + 1]
       /\ bridgePc' = AfterRequest(st)
  /\ cur' = NoItem
  /\ inService' = inService \ {BridgeThread}
  /\ UNCHANGED << queue, receiverAlive, initVars, newVars, callVars, comVars >>
  /\ UNCHANGED outsideBridge

\* A mutation of LoopEnds: a non-blocking receive, the loop ends as soon as
\* the queue is empty.
LoopEndsTryRecv == queue = << >>

\* Receiver::recv returns Err, ending the for loop, when the queue is empty
\* and every sender was dropped.
LoopEnds == queue = << >> /\ ~senderAlive

worker_loop_end ==
  /\ bridgePc = "loop"
  /\ LoopEnds
  /\ bridgePc' = "CoUninitialize"
  /\ UNCHANGED << bridgeVars, initVars, newVars, callVars, comVars >>
  /\ UNCHANGED outsideBridge

\* Cleanup COM, then the thread function returns and drops its locals.
worker_CoUninitialize ==
  /\ bridgePc = "CoUninitialize"
  /\ uninitCount' = uninitCount + 1
  /\ bridgePc' = "done"
  /\ receiverAlive' = FALSE
  /\ initTxAlive' = FALSE
  /\ queue' = << >>
  /\ UNCHANGED << initChan, initSent, initError, newVars, cur, log, resp,
                  sentCount, inService, callVars, comInit >>
  /\ UNCHANGED outsideBridge

\* ------------------------------------------------- Wsl2::execute_thread
QueueIds == {queue[i].id : i \in 1..Len(queue)}

OthersIdle(c) == \A d \in Callers \ {c} : callerPc[d] = "idle"

\* let (tx, rx) = mpsc::channel();
\* self.sender.send(Box::new(move |session| {..})).expect("thread died (tx)?");
\* shutdown takes self by value: no other borrow of the Wsl2 is live.
execute_thread_send(c, op) ==
  /\ wslState = "shared"
  /\ callerPc[c] = "idle"
  /\ nextId <= MaxCalls
  /\ op = "shutdown" => OthersIdle(c)
  /\ wslState' = IF op = "shutdown" THEN "moved" ELSE wslState
  /\ callerItem' = [callerItem EXCEPT ![c] = [id |-> nextId, caller |-> c, op |-> op]]
  /\ callerResult' = [callerResult EXCEPT ![c] = NoResult]
  /\ nextId' = nextId + 1
  /\ IF receiverAlive
       THEN /\ queue' = Append(queue, [id |-> nextId, caller |-> c, op |-> op])
            /\ enqOrder' = Append(enqOrder, nextId)
            /\ callerPc' = [callerPc EXCEPT ![c] = "waiting"]
       ELSE /\ callerPc' = [callerPc EXCEPT ![c] = "panicked"]
            /\ UNCHANGED << queue, enqOrder >>
  /\ UNCHANGED << newPc, newResult, senderAlive, bridgePc, initVars, cur, log, resp,
                  sentCount, inService, receiverAlive, comVars >>
  /\ UNCHANGED outsideBridge

\* The closure of call id (and the tx it captured) no longer exists.
ClosureGone(id) == id \notin QueueIds /\ cur.id # id

\* Mutant of execute_thread_recv: shutdown borrows the Wsl2, which stays usable
\* after it.
execute_thread_recv_keeps_wsl2(c) ==
  /\ callerPc[c] = "waiting"
  /\ LET id == callerItem[c].id IN
       IF resp[id] # << >>
         THEN /\ resp' = [resp EXCEPT ![id] = Tail(@)]
              /\ callerResult' = [callerResult EXCEPT ![c] = Head(resp[id])]
              /\ callerPc' = [callerPc EXCEPT ![c] = "idle"]
         ELSE /\ ClosureGone(id)
              /\ callerPc' = [callerPc EXCEPT ![c] = "panicked"]
              /\ UNCHANGED << resp, callerResult >>
  /\ wslState' = IF callerItem[c].op = "shutdown" THEN "shared" ELSE wslState
  /\ senderAlive' = senderAlive
  /\ UNCHANGED << newPc, newResult, bridgePc, initVars, queue, cur, log, sentCount,
                  inService, receiverAlive, callerItem, enqOrder, nextId,
                  comVars >>
  /\ UNCHANGED outsideBridge

\* rx.recv().expect("thread died (rx)?"); at the end of shutdown, self is dropped.
execute_thread_recv(c) ==
  /\ callerPc[c] = "waiting"
  /\ LET id == callerItem[c].id IN
       IF resp[id] # << >>
         THEN /\ resp' = [resp EXCEPT ![id] = Tail(@)]
              /\ callerResult' = [callerResult EXCEPT ![c] = Head(resp[id])]
              /\ callerPc' = [callerPc EXCEPT ![c] = "idle"]
         ELSE /\ ClosureGone(id)
              /\ callerPc' = [callerPc EXCEPT ![c] = "panicked"]
              /\ UNCHANGED << resp, callerResult >>
  /\ IF callerItem[c].op = "shutdown"
       THEN wslState' = "dropped" /\ senderAlive' = FALSE
       ELSE UNCHANGED << wslState, senderAlive >>
  /\ UNCHANGED << newPc, newResult, bridgePc, initVars, queue, cur, log, sentCount,
                  inService, receiverAlive, callerItem, enqOrder, nextId,
                  comVars >>
  /\ UNCHANGED outsideBridge

\* ---------------------------------------------------------- Wsl2::execute
\* f(&self.session.0): the closure runs on the calling thread.
execute_enter(c, op) ==
  /\ wslState = "shared"
  /\ callerPc[c] = "idle"
  /\ callerItem' = [callerItem EXCEPT ![c] = [id |-> 0, caller |-> c, op |-> op]]
  /\ callerResult' = [callerResult EXCEPT ![c] = NoResult]
  /\ callerPc' = [callerPc EXCEPT ![c] = "direct"]
  /\ nextId' = nextId
  /\ inService' = inService \cup {c}
  /\ UNCHANGED << newVars, bridgePc, initVars, queue, cur, log, resp, sentCount,
                  receiverAlive, enqOrder, comVars >>
  /\ UNCHANGED outsideBridge

execute_return(c) ==
  /\ callerPc[c] = "direct"
  /\ \E st \in Outcomes :
       callerResult' = [callerResult EXCEPT ![c] = [id |-> 0, st |-> st]]
  /\ callerPc' = [callerPc EXCEPT ![c] = "idle"]
  /\ callerItem' = [callerItem EXCEPT ![c] = NoItem]
  /\ inService' = inService \ {c}
  /\ UNCHANGED << newVars, bridgePc, initVars, queue, cur, log, resp, sentCount,
                  receiverAlive, enqOrder, nextId, comVars >>
  /\ UNCHANGED outsideBridge

\* ------------------------------------------------------ impl Drop for Wsl2
\* The fields are dropped; dropping `sender` disconnects the work queue.
drop_wsl2 ==
  /\ wslState = "shared"
  /\ \A c \in Callers : callerPc[c] = "idle"
  /\ wslState' = "dropped"
  /\ senderAlive' = FALSE
  /\ UNCHANGED << newPc, newResult, bridgePc, initVars, bridgeVars, callVars, comVars >>
  /\ UNCHANGED outsideBridge

\* ----------------------------------------------------------- specification
WorkerInit ==
  \/ worker_WSAStartup
  \/ worker_CoInitializeEx
  \/ worker_CoInitializeSecurity
  \/ worker_get_lxss_user_session
  \/ worker_set_session_blanket
  \/ worker_send_ready

Next ==
  \/ new_spawn
  \/ new_recv
  \/ worker_WSAStartup
  \/ worker_CoInitializeEx
  \/ worker_CoInitializeSecurity
  \/ worker_get_lxss_user_session
  \/ worker_set_session_blanket
  \/ worker_send_ready
  \/ worker_die_init
  \/ worker_recv
  \/ worker_request
  \/ worker_loop_end
  \/ worker_CoUninitialize
  \/ \E c \in Callers : \E op \in ThreadOps : execute_thread_send(c, op)
  \/ \E c \in Callers : execute_thread_recv(c)
  \/ \E c \in Callers : \E op \in DirectOps : execute_enter(c, op)
  \/ \E c \in Callers : execute_return(c)
  \/ drop_wsl2

Spec == Init /\ [][Next]_vars

\* Every thread that can take a step eventually takes one; every operation
\* running on the session returns (worker_request, execute_return).
Fairness ==
  /\ WF_vars(new_spawn)
  /\ WF_vars(new_recv)
  /\ WF_vars(WorkerInit)
  /\ WF_vars(worker_recv)
  /\ WF_vars(worker_request)
  /\ WF_vars(worker_loop_end)
  /\ WF_vars(worker_CoUninitialize)
  /\ \A c \in Callers : WF_vars(execute_thread_recv(c))
  /\ \A c \in Callers : WF_vars(execute_return(c))

FairSpec == Spec /\ Fairness

\* ------------------------------------------------ a work item that panics
\* Mutant of UnwindQueue: the queued closures outlive the receiver.
UnwindQueueKept(q) == q

\* The queue after the receiver was dropped: the closures still queued are
\* dropped with it, and with each of them the tx it captured.
UnwindQueue(q) == << >>

\* lib.rs 249-251 and 316-319: f panics inside request(&session); the unwinding
\* drops the closure with its tx, then the locals of com_thread_worker, the
\* receiver among them; the cleanup after the loop is not reached.
worker_request_panic ==
  /\ bridgePc = "request"
  /\ bridgePc' = "dead"
  /\ cur' = NoItem
  /\ queue' = UnwindQueue(queue)
  /\ receiverAlive' = FALSE
  /\ initTxAlive' = FALSE
  /\ inService' = inService \ {BridgeThread}
  /\ UNCHANGED << initChan, initSent, initError, newVars, log, resp, sentCount,
                  callVars, comVars >>
  /\ UNCHANGED outsideBridge

NextPanic == Next \/ worker_request_panic

\* The bridge with work items that may panic.
SpecPanic == Init /\ [][NextPanic]_vars

FairSpecPanic == SpecPanic /\ Fairness

TypeOK ==
  /\ newPc \in {"start", "recv", "ok", "err", "panicked"}
  /\ bridgePc \in InitSteps \cup {"unspawned", "loop", "request", "CoUninitialize", "done", "dead"}
  /\ wslState \in {"none", "shared", "moved", "dropped"}
  /\ inService \subseteq {BridgeThread} \cup Callers
  /\ nextId \in 1..(MaxCalls + 1)
  /\ \A c \in Callers : callerPc[c] \in {"idle", "waiting", "direct", "panicked"}

\* ------------------------------------------------------------ properties
LogIds == [i \in 1..Len(log) |-> log[i].id]
QueueIdSeq == [i \in 1..Len(queue) |-> queue[i].id]
CurIdSeq == IF cur = NoItem THEN << >> ELSE << cur.id >>
TimesRun(id) == Cardinality({i \in 1..Len(log) : log[i].id = id})
ReturnedFromThread(c) ==
  callerPc[c] = "idle" /\ callerItem[c].op \in ThreadOps /\ callerResult[c] # NoResult

\* C1: the background thread invokes the operations submitted through
\* execute_thread in exactly the order in which they were enqueued: the i-th
\* operation it runs (finished or in progress) is the i-th one enqueued.
C1_FifoOrder ==
  /\ \A i \in 1..Len(log) : i <= Len(enqOrder) /\ log[i].id = enqOrder[i]
  /\ cur # NoItem =>
       Len(log) < Len(enqOrder) /\ cur.id = enqOrder[Len(log) + 1]

\* One operation has been run, a second one is in progress and a third one,
\* submitted by another caller thread, waits in the queue behind it.
C1_Witness ==
  /\ Len(log) >= 1
  /\ bridgePc = "request"
  /\ queue # << >>
  /\ Head(queue).caller # cur.caller

C3_OnlyOnBridgeThread == inService \subseteq {BridgeThread}

\* C4: an execute_thread call returns the result its own operation produced,
\* and only after the background thread has finished running that operation.
C4_OwnResult ==
  \A c \in Callers :
    ReturnedFromThread(c) =>
      /\ callerResult[c].id = callerItem[c].id
      /\ \E i \in 1..Len(log) : log[i] = callerResult[c]

\* Two caller threads have both returned from execute_thread, one with Ok and
\* the other with Err.
C4_Witness ==
  \E c, d \in Callers :
    /\ c # d
    /\ ReturnedFromThread(c) /\ callerResult[c].st = "Ok"
    /\ ReturnedFromThread(d) /\ callerResult[d].st = "Err"
    /\ callerItem[c].id > callerItem[d].id

\* C5: while the background thread is alive and operations terminate, every
\* caller blocked in execute_thread eventually returns.
C5_CallReturns ==
  \A c \in Callers : (callerPc[c] = "waiting") ~> (callerPc[c] = "idle")

\* Two caller threads are blocked on their response channels at once.
C5_Witness ==
  /\ \A c \in Callers : callerPc[c] = "waiting"
  /\ Len(queue) >= 1
  /\ Len(log) >= 1

\* C6: every work item enqueued is taken and run exactly once and answered
\* exactly once: the enqueued items are, in order, those run, the one running
\* and those still queued; one result was sent per item run, none otherwise;
\* nothing is left when the background thread ends.
C6_ExactlyOnce ==
  /\ enqOrder = LogIds \o CurIdSeq \o QueueIdSeq
  /\ \A id \in CallIds : TimesRun(id) <= 1 /\ sentCount[id] = TimesRun(id)
  /\ \A id \in CallIds : Len(resp[id]) <= 1
  /\ bridgePc \in {"CoUninitialize", "done"} => enqOrder = LogIds

\* The background thread has ended after running and answering several items.
C6_Witness ==
  /\ bridgePc = "done"
  /\ Len(log) >= 2
  /\ \A i \in 1..Len(log) : sentCount[log[i].id] = 1

\* C7: when an initialization step fails on the background thread, Wsl2::new
\* returns that error, no Wsl2 is produced, and the thread has terminated
\* without running any work item.
C7_InitFailureSurfaced ==
  /\ [](initError # "none" =>
          /\ bridgePc = "done"
          /\ log = << >> /\ cur = NoItem /\ enqOrder = << >>
          /\ wslState = "none"
          /\ newPc \in {"recv", "err"}
          /\ newPc = "err" => newResult = initError)
  /\ (initError # "none") ~> (newPc = "err")

\* Session acquisition failed and Wsl2::new returned that error.
C7_Witness ==
  /\ newPc = "err"
  /\ newResult = "E_get_lxss_user_session"
  /\ bridgePc = "done"

\* C8: when the background thread ends before any send on the readiness
\* channel, Wsl2::new panics: it returns neither Ok nor an error, and does
\* not stay blocked.
C8_DeathBeforeReadyPanics ==
  /\ []((bridgePc = "dead" /\ initSent = 0) => newPc \in {"recv", "panicked"})
  /\ (bridgePc = "dead" /\ initSent = 0) ~> (newPc = "panicked")

\* The thread died before sending and Wsl2::new has panicked.
C8_Witness == bridgePc = "dead" /\ initSent = 0 /\ newPc = "panicked"

\* Some operation run by the background thread returned an error.
ErrorSeen == \E i \in 1..Len(log) : log[i].st = "Err"

\* C9: an operation's error is delivered to its caller as the call's result,
\* the background thread stays in its loop, and work items submitted
\* afterwards are still run and answered: once an error was seen, a caller
\* that waits for its response leaves the wait only by returning, and again
\* and again no caller is left waiting.
C9_ErrorDoesNotStopBridge ==
  /\ [](ErrorSeen =>
          /\ bridgePc \in {"loop", "request", "CoUninitialize", "done"}
          /\ bridgePc \in {"CoUninitialize", "done"} => wslState = "dropped"
          /\ \A c \in Callers :
               (ReturnedFromThread(c) /\ [id |-> callerItem[c].id, st |-> "Err"] \in
                  {log[i] : i \in 1..Len(log)})
                 => callerResult[c].st = "Err")
  /\ [][\A c \in Callers :
         (ErrorSeen /\ callerPc[c] = "waiting")
           => (ErrorSeen' /\ callerPc'[c] \in {"waiting", "idle"})]_vars
  /\ []<>(ErrorSeen => \A c \in Callers : callerPc[c] # "waiting")

\* An operation returned an error, its caller got it, and an item submitted
\* after that was run and its caller answered.
C9_Witness ==
  /\ Len(log) >= 2
  /\ log[1].st = "Err"
  /\ \E c, d \in Callers :
       /\ ReturnedFromThread(c) /\ callerResult[c] = log[1]
       /\ ReturnedFromThread(d) /\ callerResult[d] = log[2]

\* C10: after the Wsl2 is dropped the background thread leaves its loop only
\* with the queue drained, then tears the environment down once and ends; an
\* operation in progress always runs to its end.
C10_DropDrainsThenTearsDown ==
  /\ [][(bridgePc = "loop" /\ bridgePc' # "loop" /\ bridgePc' # "request")
          => (wslState = "dropped" /\ queue = << >> /\ bridgePc' = "CoUninitialize")]_vars
  /\ [][bridgePc = "request" => bridgePc' \in {"request", "loop"}]_vars
  /\ [][bridgePc = "CoUninitialize"
          => (bridgePc' = "CoUninitialize" \/ (bridgePc' = "done" /\ uninitCount' = uninitCount + 1))]_vars
  /\ []((bridgePc = "done" /\ newPc = "ok") =>
          (uninitCount = 1 /\ enqOrder = LogIds /\ wslState = "dropped"))
  /\ (wslState = "dropped") ~> (bridgePc = "done")

\* The Wsl2 was dropped after some work and the thread has torn down and ended.
C10_Witness ==
  /\ wslState = "dropped"
  /\ bridgePc = "done"
  /\ uninitCount = 1
  /\ Len(log) >= 1

\* ===================================================================
\* Wsl2::launch and the WslProcess it returns
\* ===================================================================

\* pipe = (stdin_r, stdout_w, stderr_w): the ends handed to the service (lib.rs 379).
ServerEnds == {"stdin_r", "stdout_w", "stderr_w"}

\* Mutant of ClientEnd: the read ends of stdout and stderr are exchanged.
ClientEndCrossed == [stdin |-> "stdin_w", stdout |-> "stderr_r", stderr |-> "stdout_r"]

\* The opposite end of each pipe, wrapped into the WSL1 streams (lib.rs 446-448).
ClientEnd == [stdin |-> "stdin_w", stdout |-> "stdout_r", stderr |-> "stderr_r"]

\* The handles wrapped into the WSL2 streams (lib.rs 438-440).
StandardHandle == [stdin |-> "StandardIn", stdout |-> "StandardOut", stderr |-> "StandardErr"]

\* The handle a stream object of a WslProcess of variant v owns.
StreamHandle(v, s) == IF v = "WSL1" THEN ClientEnd[s] ELSE StandardHandle[s]

\* The handle held by WslProcessInner (lib.rs 442, 450, 705-709).
ResolverHandle(v) == IF v = "WSL1" THEN "ProcessHandle" ELSE "CommunicationChannel"

\* What CreateLxProcess can return: an error, or a result whose valid handles are
\* those of a WSL1 instance (process and server handle) or those of a WSL2
\* instance (standard handles, communication channel and interop socket, with
\* or without a server handle: the wrapper passes a pointer to ServerHandle on
\* every call, lib.rs of wsl-com-api-sys 545, 579); every other field keeps its
\* default, invalid, value.
ErrorCodes == {"WSL_E_DISTRO_NOT_FOUND", "WSL_E_USER_NOT_FOUND"}

Responses ==
  {[kind |-> "Err", code |-> e, valid |-> {}] : e \in ErrorCodes}
    \cup
  {[kind |-> "Ok", code |-> "S_OK", valid |-> {"ProcessHandle", "ServerHandle"}],
   [kind |-> "Ok", code |-> "S_OK",
    valid |-> {"StandardIn", "StandardOut", "StandardErr",
               "CommunicationChannel", "InteropSocket"}],
   [kind |-> "Ok", code |-> "S_OK",
    valid |-> {"StandardIn", "StandardOut", "StandardErr",
               "CommunicationChannel", "InteropSocket", "ServerHandle"}]}

\* The 32 bits of Output.ExitStatus as two 16-bit halves.
RawStatuses ==
  {[hi |-> 0, lo |-> 0], [hi |-> 0, lo |-> 10752], [hi |-> 0, lo |-> 10795],
   [hi |-> 0, lo |-> 255], [hi |-> 0, lo |-> 256], [hi |-> 1, lo |-> 0],
   [hi |-> 32767, lo |-> 65535], [hi |-> 32768, lo |-> 0],
   [hi |-> 65535, lo |-> 65280], [hi |-> 65535, lo |-> 65535]}

\* Exit codes a frame reader can deliver.
ExitCodes == {0, 42, 10752}

\* cc after one CloseHandle on each handle of a and of b.
Closed(cc, a, b) ==
  [h \in Handles |->
     cc[h] + (IF h \in a THEN 1 ELSE 0) + (IF h \in b THEN 1 ELSE 0)]

\* own after owner o gave up each handle of hs.
Released(own, o, hs) == [h \in Handles |-> IF h \in hs THEN own[h] \ {o} ELSE own[h]]

\* own after owner o acquired each handle of hs.
Acquired(own, o, hs) == [h \in Handles |-> IF h \in hs THEN own[h] \cup {o} ELSE own[h]]

HeldBy(o) == {h \in Handles : o \in owners[h]}

\* lib.rs 379-394: pipe and the LXSS_STD_HANDLES built from it.
StdHandles == [StdIn |-> "stdin_r", StdOut |-> "stdout_w", StdErr |-> "stderr_w"]

\* lib.rs 375-394: the three pipes, each end owned by its PipeReader/PipeWriter,
\* and the description of the standard handles for the service.
launch_pipes ==
  /\ launchPc = "idle"
  /\ launch' = [launch EXCEPT !.launchPc = "pipes",
                              !.owners = Acquired(owners, "local", PipeEnds),
                              !.stdHandles = StdHandles]
  /\ UNCHANGED outsideLaunch

\* lib.rs 396-398: the ends handed to the service are forgotten, their raw values
\* stay in pipe.
launch_forget_server_ends ==
  /\ launchPc = "pipes"
  /\ launch' = [launch EXCEPT !.launchPc = "call",
                              !.owners = Released(owners, "local", ServerEnds)]
  /\ UNCHANGED outsideLaunch

\* Mutant of AfterCreate: the error of the call is not propagated.
AfterCreateIgnoreError(r) == "branch"

\* lib.rs 420: `?` leaves the closure on an error.
AfterCreate(r) == IF r.kind = "Err" THEN "unwind" ELSE "branch"

\* lib.rs 405-420
launch_CreateLxProcess ==
  /\ launchPc = "call"
  /\ \E r \in Responses :
       launch' = [launch EXCEPT !.response = r, !.launchPc = AfterCreate(r)]
  /\ UNCHANGED outsideLaunch

\* Mutant of ResolverFor: the branches are swapped.
ResolverForSwapped(r) == IF "ProcessHandle" \notin r.valid THEN "WSL1" ELSE "WSL2"

\* lib.rs 425: result.ProcessHandle.is_invalid()
ResolverFor(r) == IF "ProcessHandle" \notin r.valid THEN "WSL2" ELSE "WSL1"

\* Mutant of launch_construct_WSL2: Interop::new spawns no thread, the socket
\* stays with the closure.
launch_construct_WSL2_no_reader ==
  /\ launchPc = "branch"
  /\ ResolverFor(response) = "WSL2"
  /\ launch' =
       [launch EXCEPT
          !.launchPc = "unwind",
          !.handle = "WSL2",
          !.procState = "built",
          !.streamAt = [s \in Streams |-> "process"],
          !.streamHandle = StandardHandle,
          !.owners =
             Acquired(Acquired(Acquired(owners,
               "local", {"InteropSocket"}),
               "stream", {StandardHandle[s] : s \in Streams}),
               "process", ServerEnds \cup {"CommunicationChannel"})]
  /\ UNCHANGED outsideLaunch

\* lib.rs 431-443 with Interop::new (interop.rs 17-28): the socket moves into the
\* reader thread, the standard handles into the streams, the channel and pipe
\* into the WslProcess.
launch_construct_WSL2 ==
  /\ launchPc = "branch"
  /\ ResolverFor(response) = "WSL2"
  /\ launch' =
       [launch EXCEPT
          !.launchPc = "unwind",
          !.handle = "WSL2",
          !.procState = "built",
          !.streamAt = [s \in Streams |-> "process"],
          !.streamHandle = StandardHandle,
          !.readerState = "running",
          !.readerSpawned = readerSpawned + 1,
          !.owners =
             Acquired(Acquired(Acquired(owners,
               "reader", {"InteropSocket"}),
               "stream", {StandardHandle[s] : s \in Streams}),
               "process", ServerEnds \cup {"CommunicationChannel"})]
  /\ UNCHANGED outsideLaunch

\* lib.rs 445-451: the streams are built from the raw values of the pipe ends the
\* closure still holds.
launch_construct_WSL1 ==
  /\ launchPc = "branch"
  /\ ResolverFor(response) = "WSL1"
  /\ launch' =
       [launch EXCEPT
          !.launchPc = "close_server",
          !.handle = "WSL1",
          !.procState = "built",
          !.streamAt = [s \in Streams |-> "process"],
          !.streamHandle = ClientEnd,
          !.owners =
             Acquired(Acquired(owners,
               "stream", {ClientEnd[s] : s \in Streams}),
               "process", ServerEnds \cup {"ProcessHandle"})]
  /\ UNCHANGED outsideLaunch

\* lib.rs 454
launch_CloseHandle_server ==
  /\ launchPc = "close_server"
  /\ launch' = [launch EXCEPT !.launchPc = "forget",
                              !.closeCount = Closed(closeCount, {"ServerHandle"}, {})]
  /\ UNCHANGED outsideLaunch

\* lib.rs 456-458
launch_forget_client_ends ==
  /\ launchPc = "forget"
  /\ launch' =
       [launch EXCEPT
          !.launchPc = "unwind",
          !.owners = Released(owners, "local", {ClientEnd[s] : s \in Streams})]
  /\ UNCHANGED outsideLaunch

\* lib.rs 420, 463-464 and 325-331: the closure ends, what it still owns is
\* dropped, and its result is the result of launch.
launch_return ==
  /\ launchPc = "unwind"
  /\ launch' =
       [launch EXCEPT
          !.launchPc = "done",
          !.closeCount = Closed(closeCount, HeldBy("local"), {}),
          !.owners = Released(owners, "local", HeldBy("local")),
          !.launchResult = IF response.kind = "Err" THEN response.code ELSE "Ok",
          !.procState = IF procState = "built" THEN "live" ELSE procState]
  /\ UNCHANGED outsideLaunch

\* Mutant of take: taking a stream also replaces the resolver by the other variant.
take_replaces_handle(s) ==
  /\ procState = "live"
  /\ streamAt[s] = "process"
  /\ launch' = [launch EXCEPT !.streamAt[s] = "caller",
                              !.handle = IF handle = "WSL1" THEN "WSL2" ELSE "WSL1"]
  /\ UNCHANGED outsideLaunch

\* The caller takes a pub stream field out of the WslProcess (lib.rs 655-657).
take(s) ==
  /\ procState = "live"
  /\ streamAt[s] = "process"
  /\ launch' = [launch EXCEPT !.streamAt[s] = "caller"]
  /\ UNCHANGED outsideLaunch

\* The caller drops a stream it took: the stream closes its handle.
drop_stream(s) ==
  /\ streamAt[s] = "caller"
  /\ launch' =
       [launch EXCEPT
          !.streamAt[s] = "dropped",
          !.closeCount = Closed(closeCount, {StreamHandle(handle, s)}, {}),
          !.owners = Released(owners, "stream", {StreamHandle(handle, s)})]
  /\ UNCHANGED outsideLaunch

\* Mutant of DropCloseSet: Drop closes the resolver handle and leaves pipe.0..2 open.
DropCloseSetNoPipes(v) == {ResolverHandle(v)}

\* Mutant of DropCloseSet: Drop also closes the handles of the three streams.
DropCloseSetWithStreams(v) ==
  {ResolverHandle(v)} \cup ServerEnds \cup {StreamHandle(v, s) : s \in Streams}

\* lib.rs 688-703: the handles Drop for WslProcess closes.
DropCloseSet(v) == {ResolverHandle(v)} \cup ServerEnds

\* The streams still inside the WslProcess, dropped with it.
StreamsInProcess == {s \in Streams : streamAt[s] = "process"}

\* The state l after Drop for WslProcess and the drop of its fields (lib.rs
\* 653-660, 688-703).
DropProcess(l) ==
  [l EXCEPT
     !.procState = "dropped",
     !.closeCount =
        Closed(closeCount, DropCloseSet(handle),
               {StreamHandle(handle, s) : s \in StreamsInProcess}),
     !.owners =
        [h \in Handles |->
           IF h \in {StreamHandle(handle, s) : s \in StreamsInProcess}
             THEN owners[h] \ {"stream", "process"}
             ELSE owners[h] \ {"process"}],
     !.streamAt =
        [s \in Streams |-> IF streamAt[s] = "process" THEN "dropped" ELSE streamAt[s]]]

\* The caller drops the WslProcess without waiting.
drop_process ==
  /\ procState = "live"
  /\ launch' = DropProcess(launch)
  /\ UNCHANGED outsideLaunch

\* lib.rs 673: wait(self) is entered and blocks on its completion mechanism.
wait_enter ==
  /\ procState = "live"
  /\ launch' = [launch EXCEPT !.procState = "waiting"]
  /\ UNCHANGED outsideLaunch

\* Mutant of wait_for_wsl_process: the low 8 bits are returned.
wait_for_wsl_process_low_bits(r) == r.lo % 256

\* lib.rs 87: (parameters.Output.ExitStatus as u32) >> 8
wait_for_wsl_process(r) == r.hi * 256 + (r.lo \div 256)

\* lib.rs 662-670
u32_to_exit_status(code) == [kind |-> "Ok", code |-> code]

\* ExitStatus::default()
DefaultExitStatus == [kind |-> "Ok", code |-> 0]

\* lib.rs 675-679 with 65-88: the ioctl returns with a status or fails; self is
\* dropped when wait returns.
wait_return_WSL1 ==
  /\ procState = "waiting"
  /\ handle = "WSL1"
  /\ \/ \E r \in RawStatuses :
          launch' =
            [DropProcess(launch) EXCEPT
               !.rawStatus = r,
               !.waitResult = u32_to_exit_status(wait_for_wsl_process(r))]
     \/ launch' =
          [DropProcess(launch) EXCEPT !.waitResult = [kind |-> "Err", code |-> 0]]
  /\ UNCHANGED outsideLaunch

\* lib.rs 680-683 with interop.rs 56-58: recv returns the code sent, or an error
\* once the reader thread has ended without sending.
wait_return_WSL2 ==
  /\ procState = "waiting"
  /\ handle = "WSL2"
  /\ \/ /\ termChan # << >>
        /\ launch' =
             [DropProcess(launch) EXCEPT
                !.waitResult = u32_to_exit_status(Head(termChan))]
        /\ interop' = [interop EXCEPT !.termChan = Tail(termChan)]
     \/ /\ termChan = << >>
        /\ readerState = "ended"
        /\ launch' = [DropProcess(launch) EXCEPT !.waitResult = DefaultExitStatus]
        /\ interop' = interop
  /\ UNCHANGED << validate, wslError, bridgeAll >>

\* interop.rs 37-42: the reader thread sends the exit code and returns; its
\* socket is dropped.
reader_exit_status(c) ==
  /\ readerState = "running"
  /\ launch' =
       [launch EXCEPT
          !.readerState = "ended",
          !.closeCount = Closed(closeCount, {"InteropSocket"}, {}),
          !.owners = Released(owners, "reader", {"InteropSocket"})]
  /\ interop' = [interop EXCEPT !.termChan = Append(termChan, c), !.sent = sent + 1]
  /\ UNCHANGED << validate, wslError, bridgeAll >>

\* interop.rs 35, 39: a read fails and the reader thread returns without sending.
reader_read_error ==
  /\ readerState = "running"
  /\ launch' =
       [launch EXCEPT
          !.readerState = "ended",
          !.closeCount = Closed(closeCount, {"InteropSocket"}, {}),
          !.owners = Released(owners, "reader", {"InteropSocket"})]
  /\ UNCHANGED outsideLaunch

NextLaunch ==
  \/ launch_pipes
  \/ launch_forget_server_ends
  \/ launch_CreateLxProcess
  \/ launch_construct_WSL2
  \/ launch_construct_WSL1
  \/ launch_CloseHandle_server
  \/ launch_forget_client_ends
  \/ launch_return
  \/ \E s \in Streams : take(s)
  \/ \E s \in Streams : drop_stream(s)
  \/ drop_process
  \/ wait_enter
  \/ wait_return_WSL1
  \/ wait_return_WSL2
  \/ \E c \in ExitCodes : reader_exit_status(c)
  \/ reader_read_error

\* One call of launch on a Wsl2, and the life of the WslProcess it returns.
SpecLaunch == Init /\ [][NextLaunch]_vars

\* The threads that keep running: the caller inside launch and inside wait.
FairnessLaunch ==
  /\ WF_vars(launch_pipes)
  /\ WF_vars(launch_forget_server_ends)
  /\ WF_vars(launch_CreateLxProcess)
  /\ WF_vars(launch_construct_WSL2)
  /\ WF_vars(launch_construct_WSL1)
  /\ WF_vars(launch_CloseHandle_server)
  /\ WF_vars(launch_forget_client_ends)
  /\ WF_vars(launch_return)
  /\ WF_vars(wait_return_WSL1)
  /\ WF_vars(wait_return_WSL2)

FairSpecLaunch == SpecLaunch /\ FairnessLaunch

\* ===================================================================
\* Interop: the frame reader thread and the interop path of wait
\* ===================================================================

MaxFrames == 2

\* size_of::<MESSAGE_HEADER>(): two u32 fields.
HeaderSize == 8

\* size_of::<LX_INIT_PROCESS_EXIT_STATUS>(): one u32 field.
ExitStatusSize == 4

\* interop.rs 32: let mut buffer = [0u8; 1024]
BufferLen == 1024

\* The capacity BufReader::new gives its buffer.
BufReaderCapacity == 8192

\* The message type of an exit status message (wsl_com_api_sys::constants).
LX_INIT_MESSAGE_EXIT_STATUS == 7

Min(a, b) == IF a < b THEN a ELSE b

\* A u32 as its four bytes in memory order (little endian).
LE32(n) ==
  << n % 256, (n \div 256) % 256, (n \div 65536) % 256, (n \div 16777216) % 256 >>

\* std::ptr::read_unaligned of a u32 field at offset off of the bytes w.
U32At(w, off) ==
  w[off + 1] + 256 * w[off + 2] + 65536 * w[off + 3] + 16777216 * w[off + 4]

\* An exit status message: MESSAGE_HEADER followed by LX_INIT_PROCESS_EXIT_STATUS.
ExitFrame(c) ==
  [MessageType |-> LX_INIT_MESSAGE_EXIT_STATUS,
   MessageSize |-> HeaderSize + ExitStatusSize,
   ExitCode |-> c, payload |-> << >>]

\* A message of a type the reader does not know, declaring size bytes and
\* followed by n bytes of payload.
UnknownFrame(size, n) ==
  [MessageType |-> 153, MessageSize |-> size, ExitCode |-> 0,
   payload |-> [i \in 1..n |-> 1]]

\* The messages the peer may write.
FrameChoices ==
  {ExitFrame(42), UnknownFrame(16, 8), UnknownFrame(4, 0), UnknownFrame(2000, 8)}

FrameLists == UNION {[1..n -> FrameChoices] : n \in 0..MaxFrames}

\* The bytes of one message on the wire.
Encode(f) ==
  LE32(f.MessageType) \o LE32(f.MessageSize) \o
    (IF f.MessageType = LX_INIT_MESSAGE_EXIT_STATUS THEN LE32(f.ExitCode) ELSE f.payload)

RECURSIVE Wire(_)
\* The bytes of a list of messages on the wire.
Wire(fs) == IF fs = << >> THEN << >> ELSE Encode(Head(fs)) \o Wire(Tail(fs))

\* The thread was spawned on a socket that will deliver some prefix of the
\* messages and then end (interop.rs 17-31).
FrameStart ==
  \E fs \in FrameLists :
    \E cut \in 0..Len(Wire(fs)) :
      \E end \in {"eof", "error", "open"} :
        interop =
          [frames |-> fs, wire |-> SubSeq(Wire(fs), 1, cut), endKind |-> end,
           sockPos |-> 0, bufLen |-> 0, readerPc |-> "header", skipLeft |-> 0,
           headerAt |-> << >>, spins |-> 0, recvResult |-> NoExit,
           termChan |-> << >>, sent |-> 0, readFailed |-> FALSE]

InitFrame == BridgeStart /\ LaunchIdle /\ ValidateIdle /\ ErrorIdle /\ FrameStart

\* The offset in the stream of the first byte not yet consumed.
Consumed == sockPos - bufLen

\* size_of::<T>() of the read_direct::<T> the thread is in.
Need == IF readerPc = "header" THEN HeaderSize ELSE ExitStatusSize

\* interop.rs 63: the loop condition of read_direct holds.
InReadDirectLoop == readerPc \in {"header", "exit_payload"} /\ bufLen < Need

\* interop.rs 64: fill_buf on an empty buffer reads once from the socket, which
\* hands over some of the bytes that are on their way.
reader_fill_buf_read(n) ==
  /\ InReadDirectLoop
  /\ bufLen = 0
  /\ n <= Min(Len(wire) - sockPos, BufReaderCapacity)
  /\ interop' = [interop EXCEPT !.sockPos = sockPos + n, !.bufLen = n]
  /\ UNCHANGED outsideFrame

\* interop.rs 64: at end of stream the read returns Ok(0), fill_buf returns an
\* empty buffer without an error, and the loop goes round again.
reader_fill_buf_eof ==
  /\ InReadDirectLoop
  /\ bufLen = 0
  /\ sockPos = Len(wire)
  /\ endKind = "eof"
  /\ interop' = [interop EXCEPT !.spins = 1 + (spins % 2)]
  /\ UNCHANGED outsideFrame

\* interop.rs 64 with 35, 39 and 21: the read fails, `?` returns the error, the
\* thread ends and drops tx.
reader_fill_buf_error ==
  /\ InReadDirectLoop
  /\ bufLen = 0
  /\ sockPos = Len(wire)
  /\ endKind = "error"
  /\ interop' = [interop EXCEPT !.readerPc = "done", !.readFailed = TRUE]
  /\ UNCHANGED outsideFrame

\* interop.rs 64: fill_buf on a buffer that is not empty returns that buffer and
\* reads nothing, and the loop goes round again.
reader_fill_buf_partial ==
  /\ InReadDirectLoop
  /\ bufLen > 0
  /\ interop' = [interop EXCEPT !.spins = 1 + (spins % 2)]
  /\ UNCHANGED outsideFrame

\* interop.rs 46-47 where the subtraction wraps (overflow checks off): a value
\* just below the largest usize, here the largest integer of the checker.
remaining_size(size) ==
  IF size >= HeaderSize THEN size - HeaderSize
  ELSE 2147483647 - (HeaderSize - size) + 1

\* interop.rs 48
Skips(rem) == rem > 0 /\ rem <= BufferLen

\* interop.rs 35-36 and 43-51: a header is decoded and consumed; an exit status
\* message is read next, the payload of any other message is skipped if its size
\* fits the buffer.
reader_header ==
  /\ readerPc = "header"
  /\ bufLen >= HeaderSize
  /\ LET type == U32At(wire, Consumed)
         size == U32At(wire, Consumed + 4)
     IN  interop' =
           [interop EXCEPT
              !.readerPc =
                 IF type = LX_INIT_MESSAGE_EXIT_STATUS THEN "exit_payload"
                 ELSE IF Skips(remaining_size(size)) THEN "skip" ELSE "header",
              !.skipLeft =
                 IF type # LX_INIT_MESSAGE_EXIT_STATUS /\ Skips(remaining_size(size))
                   THEN remaining_size(size) ELSE 0,
              !.headerAt = Append(headerAt, Consumed),
              !.bufLen = bufLen - HeaderSize]
  /\ UNCHANGED outsideFrame

\* interop.rs 46-47 where the subtraction is checked (overflow checks on): a
\* declared size below the header size panics the thread, which drops tx.
reader_header_overflow_panic ==
  /\ readerPc = "header"
  /\ bufLen >= HeaderSize
  /\ U32At(wire, Consumed) # LX_INIT_MESSAGE_EXIT_STATUS
  /\ U32At(wire, Consumed + 4) < HeaderSize
  /\ interop' =
       [interop EXCEPT
          !.readerPc = "panicked",
          !.headerAt = Append(headerAt, Consumed),
          !.bufLen = bufLen - HeaderSize]
  /\ UNCHANGED outsideFrame

\* Mutant of SentCode: the code is shifted as on the WSL1 path.
SentCodeShifted(c) == c \div 256

\* interop.rs 40: tx.send(exit_status.ExitCode)
SentCode(c) == c

\* Mutant of reader_send_exit_code: the `return` after the send is missing.
reader_send_exit_code_no_return ==
  /\ readerPc = "exit_payload"
  /\ bufLen >= ExitStatusSize
  /\ interop' =
       [interop EXCEPT
          !.termChan = Append(termChan, SentCode(U32At(wire, Consumed))),
          !.sent = sent + 1,
          !.bufLen = bufLen - ExitStatusSize,
          !.readerPc = "header"]
  /\ UNCHANGED outsideFrame

\* interop.rs 38-41: the exit status is decoded and sent, and the thread returns.
reader_send_exit_code ==
  /\ readerPc = "exit_payload"
  /\ bufLen >= ExitStatusSize
  /\ interop' =
       [interop EXCEPT
          !.termChan = Append(termChan, SentCode(U32At(wire, Consumed))),
          !.sent = sent + 1,
          !.bufLen = bufLen - ExitStatusSize,
          !.readerPc = "done"]
  /\ UNCHANGED outsideFrame

\* interop.rs 49: read_exact takes what the buffer holds.
reader_skip_buffered ==
  /\ readerPc = "skip"
  /\ bufLen > 0
  /\ LET n == Min(bufLen, skipLeft)
     IN  interop' =
           [interop EXCEPT
              !.bufLen = bufLen - n,
              !.skipLeft = skipLeft - n,
              !.readerPc = IF skipLeft = n THEN "header" ELSE "skip"]
  /\ UNCHANGED outsideFrame

\* interop.rs 49: read_exact reads on from the socket through the buffer.
reader_skip_read(n) ==
  /\ readerPc = "skip"
  /\ bufLen = 0
  /\ n <= Min(Len(wire) - sockPos, BufReaderCapacity)
  /\ LET k == Min(n, skipLeft)
     IN  interop' =
           [interop EXCEPT
              !.sockPos = sockPos + n,
              !.bufLen = n - k,
              !.skipLeft = skipLeft - k,
              !.readerPc = IF skipLeft = k THEN "header" ELSE "skip"]
  /\ UNCHANGED outsideFrame

\* interop.rs 49: read_exact fails at the end of the stream (UnexpectedEof or the
\* error of the read); `let _ =` discards the error and the loop goes on.
reader_skip_end ==
  /\ readerPc = "skip"
  /\ bufLen = 0
  /\ sockPos = Len(wire)
  /\ endKind \in {"eof", "error"}
  /\ interop' = [interop EXCEPT !.readerPc = "header", !.skipLeft = 0,
                                !.readFailed = TRUE]
  /\ UNCHANGED outsideFrame

\* The sender of Interop.term is gone: the thread returned or panicked.
TxDropped == readerPc \in {"done", "panicked"}

\* lib.rs 680-683 with interop.rs 56-58: recv returns a code that was sent, or
\* fails once the channel is empty and its sender is gone.
wait_recv_exit_code ==
  /\ recvResult = NoExit
  /\ \/ /\ termChan # << >>
        /\ interop' =
             [interop EXCEPT
                !.recvResult = u32_to_exit_status(Head(termChan)),
                !.termChan = Tail(termChan)]
     \/ /\ termChan = << >>
        /\ TxDropped
        /\ interop' = [interop EXCEPT !.recvResult = DefaultExitStatus]
  /\ UNCHANGED outsideFrame

\* The sizes of one read from the socket.
ChunkSizes == 1..(MaxFrames * 16)

NextFrame ==
  \/ \E n \in ChunkSizes : reader_fill_buf_read(n)
  \/ reader_fill_buf_eof
  \/ reader_fill_buf_error
  \/ reader_fill_buf_partial
  \/ reader_header
  \/ reader_header_overflow_panic
  \/ reader_send_exit_code
  \/ reader_skip_buffered
  \/ \E n \in ChunkSizes : reader_skip_read(n)
  \/ reader_skip_end
  \/ wait_recv_exit_code

\* One Interop on one socket, and one wait on it.
SpecFrame == InitFrame /\ [][NextFrame]_vars

\* The reader thread and the thread inside wait keep running.
FairnessFrame ==
  /\ WF_vars(\E n \in ChunkSizes : reader_fill_buf_read(n))
  /\ WF_vars(reader_fill_buf_eof)
  /\ WF_vars(reader_fill_buf_error)
  /\ WF_vars(reader_fill_buf_partial)
  /\ WF_vars(reader_header)
  /\ WF_vars(reader_send_exit_code)
  /\ WF_vars(reader_skip_buffered)
  /\ WF_vars(\E n \in ChunkSizes : reader_skip_read(n))
  /\ WF_vars(reader_skip_end)
  /\ WF_vars(wait_recv_exit_code)

FairSpecFrame == SpecFrame /\ FairnessFrame

\* ===================================================================
\* export_distribution, register_distribution, set_version and
\* validate_file_handle
\* ===================================================================

\* What GetFileType can report (lib.rs 96).
FileTypes ==
  {"FILE_TYPE_DISK", "FILE_TYPE_PIPE", "FILE_TYPE_CHAR", "FILE_TYPE_REMOTE",
   "FILE_TYPE_UNKNOWN"}

\* lib.rs 109-117
type_to_string(file_type) ==
  CASE file_type = "FILE_TYPE_DISK" -> "file"
    [] file_type = "FILE_TYPE_PIPE" -> "pipe"
    [] file_type = "FILE_TYPE_CHAR" -> "character device"
    [] file_type = "FILE_TYPE_REMOTE" -> "remote file"
    [] file_type = "FILE_TYPE_UNKNOWN" -> "unknown type"
    [] OTHER -> "invalid type"

ValidateOk == [kind |-> "Ok", code |-> "S_OK", message |-> << >>]

\* Mutant of validate_file_handle: the early return for FILE_TYPE_UNKNOWN is
\* missing.
validate_file_handle_no_unknown_check(name, file_type, expected_type) ==
  IF file_type # expected_type
    THEN [kind |-> "Err", code |-> "WSL_E_INVALID_USAGE",
          message |-> << name, "must be a", type_to_string(expected_type),
                         "(got a", type_to_string(file_type), ")" >>]
    ELSE ValidateOk

\* lib.rs 91-134, file_type being what GetFileType reports for the handle; the
\* message is kept as the pieces the format strings put together.
validate_file_handle(name, file_type, expected_type) ==
  IF file_type = "FILE_TYPE_UNKNOWN"
    THEN [kind |-> "Err", code |-> "WSL_E_INVALID_USAGE",
          message |-> << name, "is not a valid file handle:", "GetLastError" >>]
    ELSE IF file_type # expected_type
      THEN [kind |-> "Err", code |-> "WSL_E_INVALID_USAGE",
            message |-> << name, "must be a", type_to_string(expected_type),
                           "(got a", type_to_string(file_type), ")" >>]
      ELSE ValidateOk

\* lib.rs 484-494: the operation is called with a file and a stderr object; its
\* closure starts with the validation of stderr.
export_distribution(ft, st) ==
  /\ valPc = "idle"
  /\ validate' =
       [validate EXCEPT
          !.valOp = "export_distribution",
          !.argType = [file |-> ft, stderr |-> st],
          !.valPc = "validate_stderr"]
  /\ UNCHANGED outsideValidate

\* lib.rs 515-527
register_distribution(ft, st) ==
  /\ valPc = "idle"
  /\ validate' =
       [validate EXCEPT
          !.valOp = "register_distribution",
          !.argType = [file |-> ft, stderr |-> st],
          !.valPc = "validate_stderr"]
  /\ UNCHANGED outsideValidate

\* lib.rs 552-559: the closure starts with the service call.
set_version(st) ==
  /\ valPc = "idle"
  /\ validate' =
       [validate EXCEPT
          !.valOp = "set_version",
          !.argType = [file |-> "none", stderr |-> st],
          !.valPc = "call"]
  /\ UNCHANGED outsideValidate

\* The state after one call of validate_file_handle and the `?` on its result.
Validate(arg, name, expected_type, next) ==
  LET res == validate_file_handle(name, argType[arg], expected_type)
  IN  [validate EXCEPT
         !.checked =
            checked \cup {[arg |-> arg, file_type |-> argType[arg],
                           expected_type |-> expected_type, result |-> res]},
         !.valPc = IF res.kind = "Ok" THEN next ELSE "drop",
         !.valResult = IF res.kind = "Ok" THEN valResult ELSE res]

\* lib.rs 496, 529
validate_stderr ==
  /\ valPc = "validate_stderr"
  /\ validate' = Validate("stderr", "stderr_handle", "FILE_TYPE_PIPE", "validate_file")
  /\ UNCHANGED outsideValidate

\* lib.rs 497, 530
validate_file ==
  /\ valPc = "validate_file"
  /\ validate' = Validate("file", "file_handle", "FILE_TYPE_DISK", "call")
  /\ UNCHANGED outsideValidate

\* lib.rs 499-505, 532-544, 560-565: the call to the service, which succeeds or
\* fails.
service_call ==
  /\ valPc = "call"
  /\ \E res \in {ValidateOk, [kind |-> "Err", code |-> "E_FAIL", message |-> << >>]} :
       validate' =
         [validate EXCEPT
            !.serviceCalls = serviceCalls + 1,
            !.valResult = res,
            !.valPc = "drop"]
  /\ UNCHANGED outsideValidate

\* Mutant of drop_args: an error result is returned before the drops.
drop_args_after_ok_only ==
  /\ valPc = "drop"
  /\ validate' =
       [validate EXCEPT
          !.argClosed =
             [a \in Args |->
                argClosed[a] +
                  IF argType[a] # "none" /\ valResult.kind = "Ok" THEN 1 ELSE 0],
          !.valPc = "done"]
  /\ UNCHANGED outsideValidate

\* lib.rs 508-510, 547-549, 568-569: the handle objects are dropped and the
\* result of the closure is returned.
drop_args ==
  /\ valPc = "drop"
  /\ validate' =
       [validate EXCEPT
          !.argClosed =
             [a \in Args |-> argClosed[a] + IF argType[a] # "none" THEN 1 ELSE 0],
          !.valPc = "done"]
  /\ UNCHANGED outsideValidate

NextValidate ==
  \/ \E ft \in FileTypes, st \in FileTypes : export_distribution(ft, st)
  \/ \E ft \in FileTypes, st \in FileTypes : register_distribution(ft, st)
  \/ \E st \in FileTypes : set_version(st)
  \/ validate_stderr
  \/ validate_file
  \/ service_call
  \/ drop_args

\* One call of an operation that hands caller-supplied handles to the service.
SpecValidate == Init /\ [][NextValidate]_vars

\* ===================================================================
\* WslError: hresult and kind of an error returned by Wsl2::new
\* ===================================================================

Hosts == {"windows", "other"}

\* Status codes an initialization step can fail with.
Hresults ==
  {"REGDB_E_CLASSNOTREG", "WSL_E_INVALID_USAGE", "E_ACCESSDENIED", "E_FAIL",
   "RPC_E_CHANGED_MODE", "CO_E_SERVER_EXEC_FAILURE"}

\* The steps of com_thread_worker that can fail (lib.rs 183, 196, 214, 222, 236).
FailingSteps ==
  {"WSAStartup", "CoInitializeEx", "CoInitializeSecurity", "get_lxss_user_session",
   "set_session_blanket"}

\* The codes a step can send: a failed WSAStartup is reported as
\* WSL_E_INVALID_USAGE (lib.rs 185-188), the other steps pass on the code they got.
StepErrors(step) == IF step = "WSAStartup" THEN {"WSL_E_INVALID_USAGE"} ELSE Hresults

\* error.rs 21-26
hresult(e) == e.code

\* Mutant of kind: the cfg(not(windows)) return is missing.
kind_on_any_host(h, e) ==
  IF hresult(e) = "REGDB_E_CLASSNOTREG" THEN "Some(UnsupportedWslVersion)" ELSE "None"

\* error.rs 28-37, built for host h
kind(h, e) ==
  IF h # "windows" THEN "Some(UnsupportedOperatingSystem)"
  ELSE IF hresult(e) = "REGDB_E_CLASSNOTREG" THEN "Some(UnsupportedWslVersion)"
  ELSE "None"

\* The crate was built for one of the hosts and new was not called yet.
ErrorStart ==
  \E h \in Hosts :
    wslError =
      [host |-> h, errPc |-> "idle", failedStep |-> "none",
       underlying |-> NoError,
       hresultSeen |-> "none", kindSeen |-> "none"]

InitError == BridgeStart /\ LaunchIdle /\ FrameIdle /\ ValidateIdle /\ ErrorStart

\* lib.rs 160-163 with error.rs 81-87: a step failed with code, the thread sent
\* it as a windows::core::Error and new returns it as a WslError.
new_returns_error(step, code) ==
  /\ errPc = "idle"
  /\ code \in StepErrors(step)
  /\ wslError' = [wslError EXCEPT !.errPc = "returned",
                                  !.failedStep = step,
                                  !.underlying = [variant |-> "Windows", code |-> code]]
  /\ UNCHANGED outsideError

\* The caller asks the error for its status code.
error_hresult ==
  /\ errPc = "returned"
  /\ hresultSeen = "none"
  /\ wslError' = [wslError EXCEPT !.hresultSeen = hresult(underlying)]
  /\ UNCHANGED outsideError

\* The caller asks the error for its kind (basic_usage.rs 68, 72).
error_kind ==
  /\ errPc = "returned"
  /\ kindSeen = "none"
  /\ wslError' = [wslError EXCEPT !.kindSeen = kind(host, underlying)]
  /\ UNCHANGED outsideError

NextError ==
  \/ \E step \in FailingSteps : \E code \in Hresults : new_returns_error(step, code)
  \/ error_hresult
  \/ error_kind

\* One failed Wsl2::new and the calls made on the error it returned.
SpecError == InitError /\ [][NextError]_vars

\* ------------------------------------------------------------------
\* C11: launch builds the WSL2 (Interop) resolver exactly when the process handle
\* of the response is invalid and the WSL1 (Direct) resolver exactly when it is
\* valid; a WSL1 resolver is never built for a response that carries an interop
\* socket, a WSL2 resolver never for one that carries a valid process handle.
C11_ResolverFollowsProcessHandle ==
  /\ handle # "none" =>
       /\ response.kind = "Ok"
       /\ (handle = "WSL2") <=> ("ProcessHandle" \notin response.valid)
       /\ (handle = "WSL1") <=> ("ProcessHandle" \in response.valid)
       /\ handle = "WSL1" => "InteropSocket" \notin response.valid
  /\ launchResult = "Ok" => handle # "none"

C11_Witness ==
  /\ launchPc = "done"
  /\ handle = "WSL2"
  /\ "InteropSocket" \in response.valid

\* ------------------------------------------------------------------
\* The handles that were transferred into the WslProcess and its streams.
C12_OwnedHandles ==
  IF handle = "WSL1"
    THEN {"ProcessHandle", "stdin_r", "stdout_w", "stderr_w",
          "stdin_w", "stdout_r", "stderr_r"}
    ELSE IF handle = "WSL2"
      THEN {"CommunicationChannel", "stdin_r", "stdout_w", "stderr_w",
            "StandardIn", "StandardOut", "StandardErr"}
      ELSE {}

\* C12: whatever streams the caller took, whether or not wait was called, and in
\* whatever order the WslProcess and the taken streams are dropped, no handle of
\* the WslProcess is closed twice, and once all of them are dropped each was
\* closed exactly once.
C12_ClosedExactlyOnce ==
  /\ \A h \in C12_OwnedHandles : closeCount[h] <= 1
  /\ (procState = "dropped" /\ \A s \in Streams : streamAt[s] = "dropped") =>
       \A h \in C12_OwnedHandles : closeCount[h] = 1

C12_Witness ==
  /\ procState = "dropped"
  /\ \A s \in Streams : streamAt[s] = "dropped"
  /\ waitResult.kind = "Ok"
  /\ handle = "WSL2"

\* ------------------------------------------------------------------
\* The reader is inside read_direct, short of bytes, and the socket is at its end
\* of stream: no exit status message was delivered.
AtEofBeforeExit == endKind = "eof" /\ sockPos = Len(wire) /\ InReadDirectLoop

\* C13: on the interop path, when the socket reaches end of stream before an
\* exit status message was delivered (after no byte at all, or after any prefix
\* of the messages), wait eventually returns Ok with the default exit status.
C13_WaitReturnsDefaultAtEof == AtEofBeforeExit ~> (recvResult = DefaultExitStatus)

\* ------------------------------------------------------------------
\* C14: on the WSL1 path wait yields the 32-bit status of the ioctl shifted right
\* by 8 bits as an unsigned value: the bits above the low 8 of the result are
\* the high half of the status, its low 8 bits are the upper 8 bits of the low
\* half of the status; 0x2A00 yields 42.
C14_DirectStatusShifted ==
  (handle = "WSL1" /\ waitResult.kind = "Ok") =>
    /\ waitResult.code \div 256 = rawStatus.hi
    /\ waitResult.code % 256 = rawStatus.lo \div 256
    /\ rawStatus = [hi |-> 0, lo |-> 10752] => waitResult.code = 42

C14_Witness ==
  /\ handle = "WSL1"
  /\ rawStatus = [hi |-> 0, lo |-> 10752]
  /\ waitResult = [kind |-> "Ok", code |-> 42]

\* ------------------------------------------------------------------
\* The offset in the stream of the i-th message the peer wrote.
FrameOffset(i) == Len(Wire(SubSeq(frames, 1, i - 1)))

\* The reader thread returned after it consumed the i-th message, an exit status
\* message, as a whole.
ReceivedExitFrame(i) ==
  /\ frames[i].MessageType = LX_INIT_MESSAGE_EXIT_STATUS
  /\ readerPc = "done"
  /\ headerAt # << >>
  /\ headerAt[Len(headerAt)] = FrameOffset(i)
  /\ Consumed = FrameOffset(i) + HeaderSize + ExitStatusSize

\* C15: on the interop path, once the reader has received an exit status message,
\* the code it sent, and the exit status wait returns, is the ExitCode field of
\* that message as the peer wrote it, not shifted; the WSL1 path shifts its raw
\* status right by 8 (0x2A00 gives 42).
C15_InteropStatusUnshifted ==
  /\ \A i \in 1..Len(frames) :
       ReceivedExitFrame(i) =>
         IF recvResult = NoExit
           THEN termChan = << frames[i].ExitCode >>
           ELSE recvResult = [kind |-> "Ok", code |-> frames[i].ExitCode]
  /\ wait_for_wsl_process([hi |-> 0, lo |-> 10752]) = 42

C15_Witness ==
  /\ Len(frames) = 2
  /\ ReceivedExitFrame(2)
  /\ recvResult = [kind |-> "Ok", code |-> 42]

\* ------------------------------------------------------------------
\* The peer wrote a message of unknown type whose payload has the declared size
\* and fits the buffer, then an exit status message, and all of it arrives.
UnknownThenExit ==
  /\ Len(frames) = 2
  /\ frames[1].MessageType # LX_INIT_MESSAGE_EXIT_STATUS
  /\ Len(frames[1].payload) = frames[1].MessageSize - HeaderSize
  /\ Len(frames[1].payload) > 0
  /\ Len(frames[1].payload) <= BufferLen
  /\ frames[2].MessageType = LX_INIT_MESSAGE_EXIT_STATUS
  /\ wire = Wire(frames)

\* C16: for a message of unknown type of declared size N (payload of N - 8 bytes,
\* 0 < N - 8 <= 1024) followed by an exit status message with code c, the reader
\* decodes its second header at offset N and recv_exit_code returns Some(c).
C16_SkipsUnknownThenDecodesExit ==
  /\ [](UnknownThenExit /\ Len(headerAt) >= 2 => headerAt[2] = frames[1].MessageSize)
  /\ UnknownThenExit ~>
       (Len(frames) = 2 /\ recvResult = [kind |-> "Ok", code |-> frames[2].ExitCode])

\* ------------------------------------------------------------------
\* The type each handle argument has to have (lib.rs 496-497, 529-530).
C17_ExpectedType == [file |-> "FILE_TYPE_DISK", stderr |-> "FILE_TYPE_PIPE"]

\* C17: export_distribution, register_distribution and set_version call the
\* service only after the type of each handle they pass was checked, and with a
\* handle that is invalid or of the wrong type they return an error without
\* calling the service.
C17_ValidatedBeforeServiceCall ==
  \A a \in Args :
    argType[a] # "none" =>
      /\ serviceCalls > 0 =>
           /\ \E e \in checked : e.arg = a /\ e.result.kind = "Ok"
           /\ argType[a] = C17_ExpectedType[a]
      /\ (valPc = "done" /\ argType[a] # C17_ExpectedType[a]) =>
           /\ serviceCalls = 0
           /\ valResult.kind = "Err"

\* ------------------------------------------------------------------
\* The pieces of a message.
MessageParts(res) == {res.message[i] : i \in 1..Len(res.message)}

C19_FailedCreateBuildsNothing ==
  response.kind = "Err" =>
    /\ procState = "none"
    /\ handle = "none"
    /\ readerSpawned = 0
    /\ readerState = "none"
    /\ launchPc = "done" => launchResult = response.code

C19_Witness ==
  /\ launchPc = "done"
  /\ response.kind = "Err"
  /\ launchResult = "WSL_E_DISTRO_NOT_FOUND"

\* ------------------------------------------------------------------
\* C20: during and after launch every raw handle has at most one live owner.
C20_SingleOwner == \A h \in Handles : Cardinality(owners[h]) <= 1

\* ===================================================================
\* Properties of the order of launches, of the handles left at the return of
\* launch, of the reader thread and of the startup of the background thread

\* The caller threads whose CreateLxProcess call is in progress.
LaunchInProgress ==
  {c \in Callers : callerPc[c] = "direct" /\ callerItem[c].op = "launch"}

\* C21: the CreateLxProcess call of a launch runs on the background thread,
\* as a work item of the queue, and the calls of two launches made from
\* different threads are never in progress at the same time.
C21_LaunchRunsOnBridge ==
  /\ LaunchInProgress \subseteq {BridgeThread}
  /\ Cardinality(LaunchInProgress) <= 1

\* C22: once launch has returned Ok, on either path, the server handle the
\* service returned has been closed, and so has every pipe end that belongs
\* neither to the WslProcess nor to one of its streams.
C22_UnusedHandlesClosed ==
  (launchPc = "done" /\ launchResult = "Ok") =>
    /\ "ServerHandle" \in response.valid => closeCount["ServerHandle"] >= 1
    /\ \A h \in PipeEnds : owners[h] = {} => closeCount[h] >= 1

\* C23: the resolver variant of a WslProcess is the same in every state from
\* its construction on: no step (take of a stream, wait, drop, a step of the
\* reader thread) changes it.
C23_ResolverVariantFixed == [][handle # "none" => handle' = handle]_vars

\* A WSL2 process from which a stream was taken, on which wait returned and
\* which was dropped by it.
C23_Witness ==
  /\ handle = "WSL2"
  /\ procState = "dropped"
  /\ waitResult.kind = "Ok"
  /\ \E s \in Streams : streamAt[s] = "caller"

\* The handles Drop for WslProcess is to close: the resolver's handle and pipe.0..2.
C24_ProcessHandles ==
  IF handle = "WSL1"
    THEN {"ProcessHandle", "stdin_r", "stdout_w", "stderr_w"}
    ELSE {"CommunicationChannel", "stdin_r", "stdout_w", "stderr_w"}

\* C24: while wait is blocked none of the handles of the WslProcess has been
\* closed, and once wait has returned, with Ok or with Err, each of them has
\* been closed.
C24_OpenWhileWaitingClosedAfter ==
  /\ procState = "waiting" => \A h \in C24_ProcessHandles : closeCount[h] = 0
  /\ waitResult # NoExit => \A h \in C24_ProcessHandles : closeCount[h] = 1

\* wait on the direct path returned Err.
C24_Witness ==
  /\ handle = "WSL1"
  /\ waitResult.kind = "Err"
  /\ procState = "dropped"

\* C25: whatever the stream holds, the reader thread sends at most one exit
\* code, and once it has sent one it has returned and reads no further byte
\* from the socket.
C25_OneExitCodeThenStop ==
  /\ [](sent <= 1)
  /\ [](sent = 1 => readerPc = "done")
  /\ [][sent = 1 => (sockPos' = sockPos /\ readerPc' = readerPc /\ sent' = sent)]_vars

\* Two exit status messages were delivered; the first was sent on and received,
\* the second was left on the socket.
C25_Witness ==
  /\ Len(frames) = 2
  /\ frames[1].MessageType = LX_INIT_MESSAGE_EXIT_STATUS
  /\ frames[2].MessageType = LX_INIT_MESSAGE_EXIT_STATUS
  /\ Len(wire) = 24
  /\ sockPos = 12
  /\ sent = 1
  /\ recvResult = [kind |-> "Ok", code |-> 42]

\* wait returned the default status, which is what it makes of the None of
\* recv_exit_code.
RecvNone == recvResult = DefaultExitStatus

\* C26: when a read from the socket fails, in read_direct for a header or an
\* exit status or in read_exact for the payload of an unknown message, the
\* reader thread returns without having sent and recv_exit_code returns None.
C26_ReadErrorEndsThread ==
  readFailed ~> (readerPc = "done" /\ sent = 0 /\ RecvNone)

\* The declared size of the header decoded at stream offset o.
DeclaredSize(o) == U32At(wire, o + 4)

\* The header decoded at stream offset o is not an exit status message.
UnknownAt(o) == U32At(wire, o) # LX_INIT_MESSAGE_EXIT_STATUS

\* The remaining size of C27 is positive and at most 1024.
C27_Fits(o) == DeclaredSize(o) - 8 > 0 /\ DeclaredSize(o) - 8 <= 1024

\* The stream offset at which the header after the one at o is to be decoded.
C27_NextHeader(o) == o + 8 + (IF C27_Fits(o) THEN DeclaredSize(o) - 8 ELSE 0)

\* C27: after the header of an unknown message whose remaining size is
\* positive and at most 1024 the reader discards exactly that many bytes (as
\* far as the stream goes) before it decodes the next header; for any other
\* remaining size it discards nothing and goes on to decode the next 8 bytes
\* as a header.
C27_SkipsExactlyOrNothing ==
  \A i \in 1..Len(headerAt) :
    LET o == headerAt[i] IN
      UnknownAt(o) =>
        IF i < Len(headerAt)
          THEN headerAt[i + 1] = C27_NextHeader(o)
          ELSE IF C27_Fits(o)
            THEN \/ readerPc = "skip" /\ Consumed + skipLeft = C27_NextHeader(o)
                 \/ readerPc \in {"header", "done"} /\ Consumed = C27_NextHeader(o)
                 \/ readerPc \in {"header", "done"} /\ Consumed = Len(wire)
                      /\ Len(wire) < C27_NextHeader(o)
            ELSE readerPc \in {"header", "done"} /\ Consumed = o + 8

\* The whole structure the reader is waiting for is on the stream.
C28_Available == Len(wire) - Consumed >= Need

RECURSIVE HeadersFrom(_)
\* The offsets at which the reader decodes headers when the whole stream, from
\* offset o on, arrives in one read.
HeadersFrom(o) ==
  IF Len(wire) - o < HeaderSize THEN << >>
  ELSE IF ~UnknownAt(o) THEN << o >>
  ELSE IF Skips(remaining_size(DeclaredSize(o)))
    THEN << o >> \o HeadersFrom(o + HeaderSize + remaining_size(DeclaredSize(o)))
    ELSE << o >> \o HeadersFrom(o + HeaderSize)

IsPrefix(a, b) == Len(a) <= Len(b) /\ \A i \in 1..Len(a) : a[i] = b[i]

\* C28: however the socket cuts the stream into reads, the headers are decoded
\* at the offsets at which they are decoded when the stream arrives in one
\* read, and a decode whose bytes all arrive is completed: the header is
\* decoded, the exit status is sent.
C28_DecodeCompletes ==
  /\ [](IsPrefix(headerAt, HeadersFrom(0)))
  /\ \A n \in 0..(2 * MaxFrames) :
       (readerPc = "header" /\ Len(headerAt) = n /\ C28_Available)
         ~> (Len(headerAt) > n)
  /\ (readerPc = "exit_payload" /\ C28_Available) ~> (sent = 1)

\* The background thread is past its startup: in its loop or beyond.
PastStartup == bridgePc \in {"loop", "request", "CoUninitialize", "done"}

\* The message sent on `initialized` was Ok.
SuccessSent == initSent = 1 /\ initError = "none"

\* C29: every way through the startup of the background thread (a thread
\* that unwinds inside a step sends nothing and is the case of C8) sends
\* exactly one message on `initialized`; Ok is sent only when no step failed
\* and CoInitializeEx succeeded; and no work item is received before Ok was sent.
C29_OneReadinessMessage ==
  /\ initSent <= 1
  /\ PastStartup => initSent = 1
  /\ (newResult = "Ok" \/ (initChan # << >> /\ Head(initChan) = "Ok")) =>
       (initError = "none" /\ comInit = 1 /\ bridgePc \notin InitSteps)
  /\ (cur # NoItem \/ log # << >>) => SuccessSent

\* Ok was sent, new returned it, and the thread is running a work item.
C29_Witness ==
  /\ newResult = "Ok"
  /\ initSent = 1
  /\ bridgePc = "request"
  /\ cur # NoItem

\* C30: a reader thread was spawned for the WslProcess exactly when it was built
\* on the interop path: one thread for a WSL2 process, none for a WSL1 process
\* and none when launch built nothing.
C30_ReaderIffInterop ==
  /\ handle = "WSL2" => (readerSpawned = 1 /\ readerState \in {"running", "ended"})
  /\ handle # "WSL2" => (readerSpawned = 0 /\ readerState = "none")

\* A WSL2 process whose reader thread delivered an exit code to wait.
C30_Witness ==
  /\ handle = "WSL2"
  /\ readerSpawned = 1
  /\ readerState = "ended"
  /\ waitResult.kind = "Ok"
  /\ sent = 1

\* ===================================================================
\* Properties of the pipes of a launch, of the drop of a Wsl2, of the
\* classification of errors, of teardown, of a failed launch, of a dead
\* background thread, of short declared sizes, of shutdown and of the handle
\* objects of export, register and set_version

\* C31: on the direct path the service was given the read end of the stdin
\* pipe and the write ends of the stdout and stderr pipes, and the streams of
\* the WslProcess wrap the opposite ends of the same three pipes.
C31_DirectPathPipeEnds ==
  handle = "WSL1" =>
    /\ stdHandles = [StdIn |-> "stdin_r", StdOut |-> "stdout_w", StdErr |-> "stderr_w"]
    /\ streamHandle = [stdin |-> "stdin_w", stdout |-> "stdout_r", stderr |-> "stderr_r"]

\* launch returned a WSL1 process whose three streams are still in it.
C31_Witness ==
  /\ handle = "WSL1"
  /\ launchPc = "done"
  /\ procState = "live"
  /\ \A s \in Streams : streamAt[s] = "process"

\* C32: the drop of a Wsl2 is not over before the background thread has
\* ended.
C32_DropJoinsThread == wslState = "dropped" => bridgePc \in {"done", "dead"}

\* The three classes of an error.
C33_Kinds == {"Some(UnsupportedOperatingSystem)", "Some(UnsupportedWslVersion)", "None"}

\* C33: kind() of an error returned by Wsl2::new is one of the three classes;
\* on a Windows host it is UnsupportedWslVersion exactly when the status code
\* is REGDB_E_CLASSNOTREG and None for every other code, and on any other host
\* it is UnsupportedOperatingSystem for every error.
C33_KindClassifies ==
  kindSeen # "none" =>
    /\ kindSeen \in C33_Kinds
    /\ host = "windows" =>
         /\ (kindSeen = "Some(UnsupportedWslVersion)")
              <=> (underlying.code = "REGDB_E_CLASSNOTREG")
         /\ underlying.code # "REGDB_E_CLASSNOTREG" => kindSeen = "None"
    /\ host # "windows" => kindSeen = "Some(UnsupportedOperatingSystem)"

\* On a host other than Windows the session could not be created because the
\* class is not registered, and kind was asked.
C33_Witness ==
  /\ host = "other"
  /\ underlying.code = "REGDB_E_CLASSNOTREG"
  /\ kindSeen = "Some(UnsupportedOperatingSystem)"
  /\ hresultSeen = "REGDB_E_CLASSNOTREG"

\* C34: on every way through the background thread, a failed initialization
\* step or the end of the loop, CoUninitialize was called exactly once when
\* CoInitializeEx had succeeded and not at all when it had failed or was not
\* reached.
C34_TeardownMatchesInit ==
  /\ comInit <= 1
  /\ uninitCount <= comInit
  /\ bridgePc = "done" => uninitCount = comInit

\* The thread ended on a failure of a step that follows CoInitializeEx.
C34_Witness ==
  /\ bridgePc = "done"
  /\ initError \in {"E_CoInitializeSecurity", "E_get_lxss_user_session",
                     "E_set_session_blanket"}
  /\ comInit = 1
  /\ uninitCount = 1

\* C35: when launch returns the error of CreateLxProcess, each of the six
\* pipe ends it had allocated has been closed.
C35_FailedLaunchClosesPipes ==
  (launchPc = "done" /\ launchResult \notin {"none", "Ok"}) =>
    \A h \in PipeEnds : closeCount[h] >= 1

\* The background thread has ended, by returning or by unwinding.
BridgeEnded == bridgePc \in {"done", "dead"}

\* Caller thread c waits for a response that was not sent, and the background
\* thread has ended.
PendingOnEndedBridge(c) ==
  callerPc[c] = "waiting" /\ BridgeEnded /\ resp[callerItem[c].id] = << >>

\* C36: once the background thread has ended, an execute_thread call that is
\* pending with its work item not run panics in its receive, and a call made
\* later panics in its send; neither blocks for ever: a pending call leaves
\* its wait only by panicking, and again and again no call is left pending.
C36_DeadBridgePanicsCaller ==
  /\ [][\A c \in Callers :
         PendingOnEndedBridge(c)
           => \/ callerPc'[c] = "panicked"
              \/ PendingOnEndedBridge(c)' /\ callerItem'[c] = callerItem[c]]_vars
  /\ []<>(\A c \in Callers : ~PendingOnEndedBridge(c))
  /\ [][\A c \in Callers :
         (BridgeEnded /\ callerPc[c] = "idle" /\ callerPc'[c] # "idle"
            /\ callerItem'[c].op \in ThreadOps)
           => callerPc'[c] = "panicked"]_vars

\* A work item panicked and every caller thread panicked in a call of
\* execute_thread.
C36_Witness ==
  /\ newResult = "Ok"
  /\ bridgePc = "dead"
  /\ \A c \in Callers : callerPc[c] = "panicked"

\* C37: for an unknown message whose declared size is 0 to 7 the computation
\* of the remaining size does not end the reader thread: for each such size
\* nothing is skipped, and the next header is decoded right after this one.
C37_ShortSizeDoesNotFail ==
  /\ \A sz \in 0..7 : ~Skips(remaining_size(sz))
  /\ \A i \in 1..Len(headerAt) :
       LET o == headerAt[i] IN
         (UnknownAt(o) /\ DeclaredSize(o) < 8) =>
           IF i < Len(headerAt)
             THEN headerAt[i + 1] = o + 8
             ELSE readerPc \in {"header", "done"} /\ Consumed = o + 8

\* shutdown has returned to caller thread c.
ShutdownReturned(c) ==
  callerItem[c].op = "shutdown" /\ callerPc[c] = "idle" /\ callerResult[c] # NoResult

\* C38: the closure of shutdown runs after every work item submitted before
\* it; from the call of shutdown on nothing more is submitted to the Wsl2; when
\* shutdown has returned, with Ok or Err, the sender is dropped, and the
\* background thread then leaves its loop, tears down and ends.
C38_ShutdownEndsBridge ==
  /\ [](cur.op = "shutdown" =>
          \A i \in 1..Len(enqOrder) : enqOrder[i] < cur.id => TimesRun(enqOrder[i]) = 1)
  /\ [][(wslState \in {"moved", "dropped"}) =>
          (nextId' = nextId /\ inService' \subseteq inService \cup {BridgeThread})]_vars
  /\ [](\A c \in Callers :
          ShutdownReturned(c) => (~senderAlive /\ wslState = "dropped"))
  /\ (\E c \in Callers : ShutdownReturned(c)) ~> (bridgePc = "done" /\ uninitCount = 1)

\* shutdown returned Err after an earlier work item had run, and the thread
\* has ended.
C38_Witness ==
  /\ \E c \in Callers : ShutdownReturned(c) /\ callerResult[c].st = "Err"
  /\ Len(log) >= 2
  /\ log[Len(log)].st = "Err"
  /\ bridgePc = "done"

\* C39: the handle objects given to export_distribution, register_distribution
\* and set_version are open during the validation and the service call, and
\* each is closed exactly once when the operation has returned, whether it
\* succeeded or the validation or the call failed.
C39_ArgsClosedOnceAfterCall ==
  /\ valPc \in {"validate_stderr", "validate_file", "call", "drop"} =>
       \A a \in Args : argClosed[a] = 0
  /\ valPc = "done" =>
       \A a \in Args : argClosed[a] = IF argType[a] # "none" THEN 1 ELSE 0

\* register_distribution returned the error of the validation of its file.
C39_Witness ==
  /\ valOp = "register_distribution"
  /\ valPc = "done"
  /\ valResult.kind = "Err"
  /\ serviceCalls = 0
  /\ \A a \in Args : argClosed[a] = 1

====
